---- MODULE Spec2Model ----
(***************************************************************************)
(* EasyMP3 (src/src/main.py): the task queue, the task_manager dispatcher  *)
(* thread, the ThreadPoolExecutor workers running process_task, and the    *)
(* Tk GUI thread that applies the updates scheduled with after_idle.       *)
(*                                                                         *)
(* Threads are interleaved at the granularity of their accesses to shared  *)
(* state.  "self.active_workers += 1" is a load followed by a store; the   *)
(* two are separate steps wherever the code performs them.                 *)
(***************************************************************************)
EXTENDS Integers, Sequences, FiniteSets, TLC

\* main.py:18 MAX_WORKERS = 10, scaled down to 2 so that the cap is reached
\* with few tasks (with 1 no two workers would ever run together).
MAX_WORKERS == 2

\* Number of URLs the user submits with add_task in one run.
NumTasks == 1

\* A backlog: one more queued task than the pool has threads.
BacklogSize == MAX_WORKERS + 1

\* Treeview item ids.
Tasks == 1..(IF NumTasks > BacklogSize THEN NumTasks ELSE BacklogSize)

VARIABLES
    next_item,       \* number of Treeview rows inserted so far (item ids 1..next_item)
    task_queue,      \* self.task_queue: FIFO of item ids
    task_list,       \* self.task_list / Treeview rows: item id -> [status, filename]
    active_workers,  \* self.active_workers
    worker_lock,     \* self.worker_lock: "none", "manager" or "gui"
    mpc,             \* task_manager: position in the loop body
    m_task,          \* task_manager: task_info in hand (0: none)
    m_tmp,           \* task_manager: value loaded by "active_workers += 1"
    work_queue,      \* executor: submitted work items not yet picked by a thread
    shutdown,        \* executor: shutdown() has been called
    wpc,             \* process_task(item): position, per item
    tmp,             \* process_task(item): value loaded by "active_workers +=/-= 1"
    gui_events,      \* Tk idle queue: <<item, column, value>> scheduled by after_idle
    gpc,             \* GUI thread: "idle", or position inside a handler
    g_tmp,           \* update_task_display: value loaded by "active_workers -= 1"
    destroyed,       \* root.destroy() has run: the process is over
    emitted,         \* history: per item, the last Status scheduled ("": none) and
                     \* whether a Status was scheduled after a terminal one
    hist,            \* history: pipeline states each item has entered, in order
    temp_dir,        \* process_task(item): its local temp_dir is set (not None)
    disk,            \* per item: the temporary download directory exists, the
                     \* temporary thumbnail directory exists, and the state of the
                     \* destination MP3 ("none", "downloaded", "recut")
    rm_failed,       \* history: a shutil.rmtree call made for the item has raised
    sched,           \* history: per item, the <<column, value>> scheduled, in order
    applied          \* history: per item, the <<column, value>> that
                     \* update_task_display has written to the item's row, in order

gvars == <<next_item, task_list, gui_events, gpc, g_tmp, destroyed>>
mvars == <<mpc, m_task, m_tmp>>
wvars == <<work_queue, wpc, tmp>>
fvars == <<temp_dir, disk, rm_failed>>
vars == <<next_item, task_queue, task_list, active_workers, worker_lock, mpc,
          m_task, m_tmp, work_queue, shutdown, wpc, tmp, gui_events, gpc,
          g_tmp, destroyed, emitted, hist, temp_dir, disk, rm_failed, sched,
          applied>>

----------------------------------------------------------------------------
\* Status values

\* update_task_display: the values for which it decrements active_workers.
FinishedStatuses ==
    {"Completed", "Error: Download failed", "Error: Crop failed",
     "Error: Embed failed", "Error: Unexpected", "Error: File Missing",
     "Error: Extract failed", "Error: Embed File Missing",
     "Error: Crop File Missing", "Error: Unexpected Worker"}

\* The Error statuses the workers schedule.
ErrorStatuses ==
    {"Error: Download failed", "Error: MP3 file not found post-download.",
     "Error: Extract failed", "Error: Crop failed", "Error: Crop File Missing",
     "Error: Embed failed", "Error: Embed File Missing",
     "Error: Unexpected Worker"}

IsTerminal(s) == s = "Completed" \/ s \in ErrorStatuses

\* clear_completed_tasks: the status values it deletes.
ClearedStatuses == {"Completed", "Error"}

\* Mutant of schedule_gui_update: the callback is put in front of the pending
\* ones.
schedule_in_front(q, item, column, value) == <<<<item, column, value>>>> \o q

\* schedule_gui_update: app.root.after_idle(app.update_task_display, ...).
\* (The 60-character truncation of URL/Filename values is not modelled: values
\* are abstract.)
schedule_gui_update(q, item, column, value) == Append(q, <<item, column, value>>)

\* History of the Status values scheduled for an item.
NoteStatus(e, item, value) ==
    [e EXCEPT ![item] = [last |-> value,
                         overwritten |-> @.overwritten \/ IsTerminal(@.last)]]

\* History of pipeline states: a state is entered when it differs from the
\* current one.
Enter(h, item, s) ==
    IF h[item][Len(h[item])] = s THEN h ELSE [h EXCEPT ![item] = Append(@, s)]

PipelineStateOf(value) == IF value = "Completed" THEN "Completed" ELSE "Failed"

\* Emit a Status for item: schedule it and record it.
EmitStatus(item, value) ==
    /\ gui_events' = schedule_gui_update(gui_events, item, "Status", value)
    /\ emitted' = NoteStatus(emitted, item, value)
    /\ sched' = [sched EXCEPT ![item] = Append(@, <<"Status", value>>)]

----------------------------------------------------------------------------
Init ==
    /\ next_item = 0
    /\ task_queue = <<>>
    /\ task_list = <<>>
    /\ active_workers = 0
    /\ worker_lock = "none"
    /\ mpc = "check"
    /\ m_task = 0
    /\ m_tmp = 0
    /\ work_queue = <<>>
    /\ shutdown = FALSE
    /\ wpc = [t \in Tasks |-> "none"]
    /\ tmp = [t \in Tasks |-> 0]
    /\ gui_events = <<>>
    /\ gpc = "idle"
    /\ g_tmp = 0
    /\ destroyed = FALSE
    /\ emitted = [t \in Tasks |-> [last |-> "", overwritten |-> FALSE]]
    /\ hist = [t \in Tasks |-> <<>>]
    /\ temp_dir = [t \in Tasks |-> FALSE]
    /\ disk = [t \in Tasks |->
                 [dl_dir |-> FALSE, thumb_dir |-> FALSE, mp3 |-> "none"]]
    /\ rm_failed = [t \in Tasks |-> FALSE]
    /\ sched = [t \in Tasks |-> <<>>]
    /\ applied = [t \in Tasks |-> <<>>]

----------------------------------------------------------------------------
\* GUI thread: add_task

\* self.output_dir_var: set to the working directory at construction, and later
\* only to a directory the user picked.
OutputFolderSet == TRUE

\* add_task: "if not output_path: messagebox.showerror(...); return" is its only
\* refusal; nothing in it looks at the executor or at a closing window.
AddTaskRefuses == ~OutputFolderSet

add_task ==
    /\ gpc = "idle"
    /\ next_item < NumTasks
    /\ ~AddTaskRefuses
    /\ LET item == next_item + 1 IN
         /\ next_item' = item
         /\ task_list' = task_list @@ (item :> [status |-> "Queued", filename |-> "-"])
         /\ task_queue' = Append(task_queue, item)
         /\ hist' = [hist EXCEPT ![item] = <<"Queued">>]
    /\ UNCHANGED <<active_workers, worker_lock, mvars, wvars, shutdown,
                   gui_events, gpc, g_tmp, destroyed, emitted,
                   fvars, sched, applied>>

----------------------------------------------------------------------------
\* task_manager thread

\* with self.worker_lock: if self.active_workers < MAX_WORKERS: can_start_new = True
\* else: time.sleep(0.5) and loop.
ManagerCheck ==
    /\ ~destroyed
    /\ mpc = "check"
    /\ worker_lock = "none"
    /\ mpc' = IF active_workers < MAX_WORKERS THEN "get" ELSE "check"
    /\ UNCHANGED <<next_item, task_queue, task_list, active_workers, worker_lock,
                   m_task, m_tmp, wvars, shutdown, gui_events, gpc, g_tmp,
                   destroyed, emitted, hist,
                   fvars, sched, applied>>

\* Mutant of get_nowait: the most recently enqueued item is taken.
TakeNewest(q) == q[Len(q)]

\* self.task_queue.get_nowait() on a queue.Queue: the item returned is the
\* oldest one.
get_nowait(q) == Head(q)

\* Mutant of Dequeued: the item is read but stays in the queue.
NotRemoved(q) == q

\* self.task_queue.get_nowait(): the dequeued queue.
Dequeued(q) == Tail(q)

\* task_info = self.task_queue.get_nowait(); on queue.Empty sleep and loop.
ManagerGet ==
    /\ ~destroyed
    /\ mpc = "get"
    /\ IF task_queue = <<>>
       THEN /\ mpc' = "check"
            /\ UNCHANGED <<task_queue, m_task, hist>>
       ELSE /\ m_task' = get_nowait(task_queue)
            /\ task_queue' = Dequeued(task_queue)
            /\ hist' = Enter(hist, get_nowait(task_queue), "Dispatched")
            /\ mpc' = "lock"
    /\ UNCHANGED <<next_item, task_list, active_workers, worker_lock, m_tmp,
                   wvars, shutdown, gui_events, gpc, g_tmp, destroyed, emitted,
                   fvars, sched, applied>>

\* with self.worker_lock: self.active_workers += 1   (the load)
ManagerIncRead ==
    /\ ~destroyed
    /\ mpc = "lock"
    /\ worker_lock = "none"
    /\ worker_lock' = "manager"
    /\ m_tmp' = active_workers
    /\ mpc' = "inc"
    /\ UNCHANGED <<next_item, task_queue, task_list, active_workers, m_task,
                   wvars, shutdown, gui_events, gpc, g_tmp, destroyed, emitted,
                   hist,
                   fvars, sched, applied>>

\* with self.worker_lock: self.active_workers += 1   (the store, then release)
ManagerIncWrite ==
    /\ ~destroyed
    /\ mpc = "inc"
    /\ active_workers' = m_tmp + 1
    /\ worker_lock' = "none"
    /\ m_tmp' = 0
    /\ mpc' = "submit"
    /\ UNCHANGED <<next_item, task_queue, task_list, m_task, wvars, shutdown,
                   gui_events, gpc, g_tmp, destroyed, emitted, hist,
                   fvars, sched, applied>>

\* schedule_gui_update(self, item_id, "Status", "Processing...") and
\* self.executor.submit(process_task, ...).  After executor.shutdown() submit
\* raises RuntimeError, which the loop's except clause logs: the task is dropped.
ManagerSubmit ==
    /\ ~destroyed
    /\ mpc = "submit"
    /\ EmitStatus(m_task, "Processing...")
    /\ work_queue' = IF shutdown THEN work_queue ELSE Append(work_queue, m_task)
    /\ m_task' = 0
    /\ mpc' = "check"
    /\ UNCHANGED <<next_item, task_queue, task_list, active_workers, worker_lock,
                   m_tmp, shutdown, wpc, tmp, gpc, g_tmp, destroyed, hist,
                   fvars, applied>>

task_manager ==
    \/ ManagerCheck
    \/ ManagerGet
    \/ ManagerIncRead
    \/ ManagerIncWrite
    \/ ManagerSubmit

----------------------------------------------------------------------------
\* ThreadPoolExecutor(max_workers=MAX_WORKERS) and process_task

Running(t) == wpc[t] \notin {"none", "done"}

\* Mutant of ExecutorHasFreeThread: a pool that starts a thread per work item.
UnboundedPool == TRUE

\* The executor runs a submitted work item only on one of its MAX_WORKERS threads.
ExecutorHasFreeThread == Cardinality({t \in Tasks : Running(t)}) < MAX_WORKERS

\* A pool thread takes the oldest work item and enters process_task:
\* app.active_workers += 1   (the load; no lock is taken)
WorkerStart(t) ==
    /\ work_queue # <<>>
    /\ Head(work_queue) = t
    /\ ExecutorHasFreeThread
    /\ work_queue' = Tail(work_queue)
    /\ tmp' = [tmp EXCEPT ![t] = active_workers]
    /\ wpc' = [wpc EXCEPT ![t] = "inc_write"]
    /\ UNCHANGED <<gvars, task_queue, active_workers, worker_lock, mvars,
                   shutdown, emitted, hist,
                   fvars, sched, applied>>

\* app.active_workers += 1   (the store)
WorkerIncWrite(t) ==
    /\ wpc[t] = "inc_write"
    /\ active_workers' = tmp[t] + 1
    /\ tmp' = [tmp EXCEPT ![t] = 0]
    /\ wpc' = [wpc EXCEPT ![t] = "download"]
    /\ UNCHANGED <<gvars, task_queue, worker_lock, mvars, work_queue, shutdown,
                   emitted, hist,
                   fvars, sched, applied>>

\* How download_audio can end: the MP3 is found and moved; yt-dlp exits non-zero
\* (CalledProcessError); no MP3 in the temporary directory (FileNotFoundError);
\* any other exception.
DownloadOutcomes == {"ok", "called_process_error", "no_mp3", "exception"}

\* The Status each except clause of download_audio schedules.
DownloadErrorStatus(o) ==
    IF o = "no_mp3" THEN "Error: MP3 file not found post-download."
    ELSE "Error: Download failed"

\* Mutant of NextAfterDownload: crop_thumbnail is called whatever download_audio
\* returned.
AlwaysCrop(o) == "crop"

\* Mutant of NextAfterDownload: only a failed yt-dlp run skips crop_thumbnail.
CropUnlessProcessError(o) ==
    IF o = "called_process_error" THEN "finally" ELSE "crop"

\* process_task: "if mp3_path:" -- crop_thumbnail runs only after a download
\* that returned a path; otherwise the finally block is next.
NextAfterDownload(o) == IF o = "ok" THEN "crop" ELSE "finally"

\* shutil.rmtree can succeed or raise (the callers catch and print).
RemovalOutcomes == BOOLEAN

\* The runs in which every shutil.rmtree call succeeds.
RemovalSucceeds == {TRUE}

\* Mutant of rmtree: the directory is left in place.
rmtree_skipped(exists, ok) == exists

\* try: if d.exists(): shutil.rmtree(d) / except Exception: print(...)
\* -- whether the directory exists afterwards.
rmtree(exists, ok) == exists /\ ~ok

\* download_audio with its outcome drawn from O and the outcome of its rmtree
\* call from RM: schedules "Downloading...", creates the temporary download
\* directory and runs yt-dlp; then either schedules the Filename, moves the MP3
\* to the output directory and returns (path, directory), or schedules an Error
\* status, removes the directory and returns (None, None).
Download(t, O, RM) ==
    /\ wpc[t] = "download"
    /\ \E o \in O : \E ok \in RM :
         LET q1 == schedule_gui_update(gui_events, t, "Status", "Downloading...")
             e1 == NoteStatus(emitted, t, "Downloading...")
             h1 == Enter(hist, t, "Acquiring")
             s1 == Append(sched[t], <<"Status", "Downloading...">>)
         IN
           /\ IF o = "ok"
              THEN /\ gui_events' = schedule_gui_update(q1, t, "Filename", "mp3")
                   /\ emitted' = e1
                   /\ hist' = h1
                   /\ sched' = [sched EXCEPT
                                  ![t] = Append(s1, <<"Filename", "mp3">>)]
                   /\ disk' = [disk EXCEPT ![t].dl_dir = TRUE,
                                            ![t].mp3 = "downloaded"]
                   /\ temp_dir' = [temp_dir EXCEPT ![t] = TRUE]
                   /\ UNCHANGED rm_failed
              ELSE /\ gui_events' = schedule_gui_update(q1, t, "Status",
                                                        DownloadErrorStatus(o))
                   /\ emitted' = NoteStatus(e1, t, DownloadErrorStatus(o))
                   /\ hist' = Enter(h1, t, "Failed")
                   /\ sched' = [sched EXCEPT
                                  ![t] = Append(s1, <<"Status",
                                                      DownloadErrorStatus(o)>>)]
                   /\ disk' = [disk EXCEPT ![t].dl_dir = rmtree(TRUE, ok)]
                   /\ rm_failed' = [rm_failed EXCEPT ![t] = @ \/ ~ok]
                   /\ UNCHANGED temp_dir
           /\ wpc' = [wpc EXCEPT ![t] = NextAfterDownload(o)]
    /\ UNCHANGED <<next_item, task_list, gpc, g_tmp, destroyed, task_queue,
                   active_workers, worker_lock, mvars, work_queue, tmp, shutdown,
                   applied>>

download_audio(t) == Download(t, DownloadOutcomes, RemovalSucceeds)

\* How crop_thumbnail can end: temp_dir.mkdir() raised (it is outside the try
\* block, so the exception reaches process_task); replaced the MP3; no embedded
\* thumbnail; the extract step failed; the crop step failed (CalledProcessError)
\* or left no file; the embed step failed or left no file; another exception.
CropOutcomes ==
    {"mkdir_raised", "success", "no_thumbnail", "extract_failed", "crop_failed",
     "crop_file_missing", "embed_failed", "embed_file_missing", "exception"}

\* Mutant of CropReturnsTrue: a missing thumbnail counts as a failure.
TrueOnlyOnReplace(o) == o = "success"

\* The outcomes for which crop_thumbnail returns True.
CropReturnsTrue(o) == o \in {"success", "no_thumbnail"}

\* The Status crop_thumbnail schedules for an outcome ("": none).
CropStatus(o) ==
    CASE o = "success"            -> ""
      [] o = "mkdir_raised"       -> ""
      [] o = "no_thumbnail"       -> "No thumbnail found"
      [] o = "extract_failed"     -> "Error: Extract failed"
      [] o = "crop_failed"        -> "Error: Crop failed"
      [] o = "crop_file_missing"  -> "Error: Crop File Missing"
      [] o = "embed_failed"       -> "Error: Embed failed"
      [] o = "embed_file_missing" -> "Error: Embed File Missing"
      [] o = "exception"          -> "Error: Crop failed"

\* Mutant of AfterCropStatus: crop_result is ignored.
AlwaysCompleted(o) == "Completed"

\* The Status process_task schedules once crop_thumbnail has returned
\* crop_result, or has raised (its except clause).
AfterCropStatus(o) ==
    IF o = "mkdir_raised" THEN "Error: Unexpected Worker"
    ELSE IF CropReturnsTrue(o) THEN "Completed"
    ELSE "Error: Crop failed"

\* Mutant of ReplacesMp3: the embed step writes over the destination MP3.
EmbedsInPlace(o) == o \in {"success", "embed_failed", "embed_file_missing"}

\* crop_thumbnail: os.replace(final_track_name, mp3_file) is reached only when
\* extract, crop and embed have all succeeded; every earlier step reads the
\* destination MP3 and writes inside the temporary directory.
ReplacesMp3(o) == o = "success"

\* crop_thumbnail with its outcome drawn from O and the outcome of its rmtree
\* call from RM, then the Status process_task schedules after it.  The
\* temporary thumbnail directory is created before the try block and removed
\* in its finally clause.
Crop(t, O, RM) ==
    /\ wpc[t] = "crop"
    /\ \E o \in O : \E ok \in RM :
         LET first == CropStatus(o)
             final == AfterCropStatus(o)
             q0 == schedule_gui_update(gui_events, t, "Status", "Processing...")
             e0 == NoteStatus(emitted, t, "Processing...")
             h0 == Enter(hist, t, "Transforming")
             s0 == Append(sched[t], <<"Status", "Processing...">>)
             q1 == IF first = "" THEN q0
                   ELSE schedule_gui_update(q0, t, "Status", first)
             e1 == IF first = "" THEN e0 ELSE NoteStatus(e0, t, first)
             h1 == IF IsTerminal(first) THEN Enter(h0, t, PipelineStateOf(first))
                   ELSE h0
             s1 == IF first = "" THEN s0 ELSE Append(s0, <<"Status", first>>)
             made == o # "mkdir_raised"
         IN
           /\ gui_events' = schedule_gui_update(q1, t, "Status", final)
           /\ emitted' = NoteStatus(e1, t, final)
           /\ hist' = Enter(h1, t, PipelineStateOf(final))
           /\ sched' = [sched EXCEPT ![t] = Append(s1, <<"Status", final>>)]
           /\ disk' = [disk EXCEPT
                         ![t].thumb_dir = rmtree(made, ok),
                         ![t].mp3 = IF ReplacesMp3(o) THEN "recut" ELSE @]
           /\ rm_failed' = [rm_failed EXCEPT ![t] = @ \/ (made /\ ~ok)]
    /\ wpc' = [wpc EXCEPT ![t] = "finally"]
    /\ UNCHANGED <<next_item, task_list, gpc, g_tmp, destroyed, task_queue,
                   active_workers, worker_lock, mvars, work_queue, tmp, shutdown,
                   temp_dir, applied>>

crop_thumbnail(t) == Crop(t, CropOutcomes, RemovalSucceeds)

\* Mutant of finally_cleanup: process_task leaves the directory to its callees.
no_finally_cleanup(has_temp_dir, exists, ok) == exists

\* process_task, finally: if temp_dir and temp_dir.exists(): shutil.rmtree(temp_dir)
\* -- whether the temporary download directory exists afterwards.
finally_cleanup(has_temp_dir, exists, ok) ==
    IF has_temp_dir THEN rmtree(exists, ok) ELSE exists

\* process_task, finally, with the outcome of its rmtree call drawn from RM:
\* remove the temporary download directory, then
\* app.active_workers -= 1   (the load; no lock is taken)
Finally(t, RM) ==
    /\ wpc[t] = "finally"
    /\ \E ok \in RM :
         /\ disk' = [disk EXCEPT
                       ![t].dl_dir = finally_cleanup(temp_dir[t], @, ok)]
         /\ rm_failed' = [rm_failed EXCEPT
                            ![t] = @ \/ (temp_dir[t] /\ disk[t].dl_dir /\ ~ok)]
    /\ tmp' = [tmp EXCEPT ![t] = active_workers]
    /\ wpc' = [wpc EXCEPT ![t] = "dec_write"]
    /\ UNCHANGED <<gvars, task_queue, active_workers, worker_lock, mvars,
                   work_queue, shutdown, emitted, hist, temp_dir, sched, applied>>

FinallyRead(t) == Finally(t, RemovalSucceeds)

\* app.active_workers -= 1   (the store); process_task returns.
FinallyWrite(t) ==
    /\ wpc[t] = "dec_write"
    /\ active_workers' = tmp[t] - 1
    /\ tmp' = [tmp EXCEPT ![t] = 0]
    /\ wpc' = [wpc EXCEPT ![t] = "done"]
    /\ UNCHANGED <<gvars, task_queue, worker_lock, mvars, work_queue, shutdown,
                   emitted, hist,
                   fvars, sched, applied>>

process_task(t) ==
    \/ WorkerStart(t)
    \/ WorkerIncWrite(t)
    \/ download_audio(t)
    \/ crop_thumbnail(t)
    \/ FinallyRead(t)
    \/ FinallyWrite(t)

----------------------------------------------------------------------------
\* GUI thread (Tk main loop): one handler at a time

\* update_task_display: the row's values after column := value.
UpdatedRow(row, column, value) ==
    IF column = "Status" THEN [row EXCEPT !.status = value]
    ELSE IF column = "Filename" THEN [row EXCEPT !.filename = value]
    ELSE row

\* update_task_display(item_id, column, value), run from the idle queue: if the
\* row exists, set the column; for a Status in FinishedStatuses take
\* worker_lock and test self.active_workers > 0.  (The row is private to the
\* GUI thread, so its update and the acquisition of the lock are one step.)
GuiApply ==
    /\ gpc = "idle"
    /\ gui_events # <<>>
    /\ LET item   == Head(gui_events)[1]
           column == Head(gui_events)[2]
           value  == Head(gui_events)[3]
           finished == /\ item \in DOMAIN task_list
                       /\ column = "Status"
                       /\ value \in FinishedStatuses
       IN
         /\ finished => worker_lock = "none"
         /\ gui_events' = Tail(gui_events)
         /\ task_list' = IF item \in DOMAIN task_list
                         THEN [task_list EXCEPT
                                 ![item] = UpdatedRow(@, column, value)]
                         ELSE task_list
         /\ applied' = IF item \in DOMAIN task_list
                       THEN [applied EXCEPT ![item] = Append(@, <<column, value>>)]
                       ELSE applied
         /\ IF finished /\ active_workers > 0
            THEN /\ worker_lock' = "gui"
                 /\ gpc' = "dec_read"
            ELSE UNCHANGED <<worker_lock, gpc>>
    /\ UNCHANGED <<next_item, g_tmp, destroyed, task_queue, active_workers,
                   mvars, wvars, shutdown, emitted, hist,
                   fvars, sched>>

\* self.active_workers -= 1   (the load, lock held)
GuiDecRead ==
    /\ gpc = "dec_read"
    /\ g_tmp' = active_workers
    /\ gpc' = "dec_write"
    /\ UNCHANGED <<next_item, task_list, gui_events, destroyed, task_queue,
                   active_workers, worker_lock, mvars, wvars, shutdown, emitted,
                   hist,
                   fvars, sched, applied>>

\* self.active_workers -= 1   (the store, then release)
GuiDecWrite ==
    /\ gpc = "dec_write"
    /\ active_workers' = g_tmp - 1
    /\ worker_lock' = "none"
    /\ g_tmp' = 0
    /\ gpc' = "idle"
    /\ UNCHANGED <<next_item, task_list, gui_events, destroyed, task_queue,
                   mvars, wvars, shutdown, emitted, hist,
                   fvars, sched, applied>>

update_task_display ==
    \/ GuiApply
    \/ GuiDecRead
    \/ GuiDecWrite

\* clear_completed_tasks: the rows it deletes.
ItemsToDelete ==
    {item \in DOMAIN task_list : task_list[item].status \in ClearedStatuses}

clear_completed_tasks ==
    /\ gpc = "idle"
    /\ ~shutdown
    /\ ItemsToDelete # {}
    /\ task_list' = [item \in DOMAIN task_list \ ItemsToDelete |-> task_list[item]]
    /\ UNCHANGED <<next_item, gui_events, gpc, g_tmp, destroyed, task_queue,
                   active_workers, worker_lock, mvars, wvars, shutdown, emitted,
                   hist,
                   fvars, sched, applied>>

\* Mutant of on_closing: executor.shutdown(wait=False), the handler returns to
\* the main loop and the buttons stay enabled.
on_closing_detached ==
    /\ gpc = "idle"
    /\ shutdown' = TRUE
    /\ UNCHANGED <<next_item, task_list, gui_events, gpc, g_tmp, destroyed,
                   task_queue, active_workers, worker_lock, mvars, wvars,
                   emitted, hist, fvars, sched, applied>>

\* on_closing: "if self.active_workers > 0:" (read without the lock) decides
\* whether messagebox.askyesno is shown.
AsksToConfirm == active_workers > 0

\* on_closing: with active_workers > 0 the user is asked and may decline;
\* otherwise, or on "yes", the buttons are disabled and
\* executor.shutdown(wait=True) begins.  The GUI thread stays inside the
\* handler until root.destroy(), so no other callback runs from here on.
on_closing ==
    /\ gpc = "idle"
    /\ \E exit_anyway \in BOOLEAN :
         IF AsksToConfirm /\ ~exit_anyway
         THEN UNCHANGED <<shutdown, gpc>>
         ELSE /\ shutdown' = TRUE
              /\ gpc' = "shutdown_wait"
    /\ UNCHANGED <<next_item, task_list, gui_events, g_tmp, destroyed,
                   task_queue, active_workers, worker_lock, mvars, wvars,
                   emitted, hist,
                   fvars, sched, applied>>

\* Mutant of WorkersJoined: shutdown returns without waiting.
ReturnsAtOnce == TRUE

\* executor.shutdown(wait=True) joins the pool threads: it returns once every
\* submitted work item has run to its end.
WorkersJoined ==
    /\ work_queue = <<>>
    /\ \A t \in Tasks : ~Running(t)

\* executor.shutdown(wait=True) returns; then root.destroy().
ShutdownComplete ==
    /\ gpc = "shutdown_wait"
    /\ WorkersJoined
    /\ destroyed' = TRUE
    /\ gpc' = "destroyed"
    /\ UNCHANGED <<next_item, task_list, gui_events, g_tmp, task_queue,
                   active_workers, worker_lock, mvars, wvars, shutdown, emitted,
                   hist,
                   fvars, sched, applied>>

----------------------------------------------------------------------------
\* After root.destroy() the main loop returns and the process ends (the manager
\* is a daemon thread, the pool threads have been joined).
\* Once the root is destroyed the process exits: the GUI callbacks are gone
\* (gpc = "destroyed"), the pool is drained and the daemon manager thread dies.
Next ==
    \/ add_task
    \/ task_manager
    \/ \E t \in Tasks : process_task(t)
    \/ update_task_display
    \/ clear_completed_tasks
    \/ on_closing
    \/ ShutdownComplete

Spec == Init /\ [][Next]_vars

\* The threads are scheduled fairly and every external process terminates; the
\* user's actions (add_task, clear_completed_tasks, on_closing) are not forced.
Fairness ==
    /\ WF_vars(task_manager)
    /\ \A t \in Tasks : WF_vars(process_task(t))
    /\ WF_vars(update_task_display)
    /\ WF_vars(ShutdownComplete)

FairSpec == Spec /\ Fairness

----------------------------------------------------------------------------
\* Backlog scenario: BacklogSize URLs have been submitted before the task
\* manager's first poll; the user then leaves the window alone.
\* SubmittedInit(n) is the state after add_task has run n times.
SubmittedInit(n) ==
    /\ next_item = n
    /\ task_queue = [i \in 1..n |-> i]
    /\ task_list = [i \in 1..n |-> [status |-> "Queued", filename |-> "-"]]
    /\ active_workers = 0
    /\ worker_lock = "none"
    /\ mpc = "check"
    /\ m_task = 0
    /\ m_tmp = 0
    /\ work_queue = <<>>
    /\ shutdown = FALSE
    /\ wpc = [t \in Tasks |-> "none"]
    /\ tmp = [t \in Tasks |-> 0]
    /\ gui_events = <<>>
    /\ gpc = "idle"
    /\ g_tmp = 0
    /\ destroyed = FALSE
    /\ emitted = [t \in Tasks |-> [last |-> "", overwritten |-> FALSE]]
    /\ hist = [t \in Tasks |-> IF t <= n THEN <<"Queued">> ELSE <<>>]
    /\ temp_dir = [t \in Tasks |-> FALSE]
    /\ disk = [t \in Tasks |->
                 [dl_dir |-> FALSE, thumb_dir |-> FALSE, mp3 |-> "none"]]
    /\ rm_failed = [t \in Tasks |-> FALSE]
    /\ sched = [t \in Tasks |-> <<>>]
    /\ applied = [t \in Tasks |-> <<>>]

BacklogInit == SubmittedInit(BacklogSize)

\* The outcomes the backlog scenario draws from: one of each way a task's
\* Status events count against active_workers (none of them in FinishedStatuses:
\* no MP3; one: Completed; two: extract failed); every shutil.rmtree call
\* succeeds.
BacklogDownloadOutcomes == {"ok", "no_mp3"}
BacklogCropOutcomes == {"success", "extract_failed"}

BacklogTask(t) ==
    \/ WorkerStart(t)
    \/ WorkerIncWrite(t)
    \/ Download(t, BacklogDownloadOutcomes, RemovalSucceeds)
    \/ Crop(t, BacklogCropOutcomes, RemovalSucceeds)
    \/ Finally(t, RemovalSucceeds)
    \/ FinallyWrite(t)

BacklogNext ==
    \/ task_manager
    \/ \E t \in Tasks : BacklogTask(t)
    \/ update_task_display

BacklogSpec == BacklogInit /\ [][BacklogNext]_vars

----------------------------------------------------------------------------
\* Cleanup scenario: one URL has been submitted and any shutil.rmtree call made
\* for it may raise (Spec and BacklogSpec take the runs in which every removal
\* succeeds).
CleanupInit == SubmittedInit(1)

CleanupTask(t) ==
    \/ WorkerStart(t)
    \/ WorkerIncWrite(t)
    \/ Download(t, DownloadOutcomes, RemovalOutcomes)
    \/ Crop(t, CropOutcomes, RemovalOutcomes)
    \/ Finally(t, RemovalOutcomes)
    \/ FinallyWrite(t)

CleanupNext ==
    \/ task_manager
    \/ \E t \in Tasks : CleanupTask(t)
    \/ update_task_display
    \/ clear_completed_tasks
    \/ on_closing
    \/ ShutdownComplete

CleanupSpec == CleanupInit /\ [][CleanupNext]_vars


----------------------------------------------------------------------------
\* Properties

\* The tasks process_task is running: started and not yet returned.
RunningTasks == {t \in Tasks : Running(t)}

\* The tasks task_manager has admitted (taken out of the queue).
Admitted(t) == \E i \in 1..Len(hist[t]) : hist[t][i] = "Dispatched"

\* C1: in every reachable state active_workers is at most MAX_WORKERS.
C1_AtMostMaxWorkers == active_workers <= MAX_WORKERS

\* C2: in every reachable state active_workers is at least 0.
C2_NonNegative == active_workers >= 0

\* No admitted task is unfinished and every scheduled update has been applied.
AllSettled ==
    /\ \A t \in Tasks : Admitted(t) => wpc[t] = "done"
    /\ gui_events = <<>>
    /\ gpc = "idle"

\* C3: every admitted task raises active_workers by one and lowers it by one,
\* whatever its outcome: once no admitted task is unfinished and every scheduled
\* status update has been applied, active_workers is 0.
C3_CounterBalanced == AllSettled => active_workers = 0

\* Nothing is in progress: the manager is about to test the counter, no worker
\* runs or waits for a thread, no update is pending.
Quiescent ==
    /\ mpc = "check"
    /\ work_queue = <<>>
    /\ RunningTasks = {}
    /\ gui_events = <<>>
    /\ gpc = "idle"

\* C4: tasks that failed do not stop the dispatcher.  Finite form: when nothing
\* is in progress any more and a task is still queued, the manager's test
\* active_workers < MAX_WORKERS succeeds (otherwise no step can ever change the
\* counter again and the queued task is never admitted).
C4_DispatcherNotStalled ==
    (Quiescent /\ task_queue # <<>>) => active_workers < MAX_WORKERS

\* No admitted task has reached a terminal state or returned.
NoneFinished ==
    \A t \in Tasks : wpc[t] # "done" /\ ~IsTerminal(emitted[t].last)

AdmittedCount == Cardinality({t \in Tasks : Admitted(t)})

\* C5: with more than MAX_WORKERS tasks queued and no admitted task finished,
\* the manager keeps admitting until MAX_WORKERS tasks have left the queue (its
\* test succeeds while fewer have), and admits no more than MAX_WORKERS.
C5_AdmitsExactlyMax ==
    NoneFinished =>
        /\ (mpc = "check" /\ task_queue # <<>> /\ AdmittedCount < MAX_WORKERS)
              => active_workers < MAX_WORKERS
        /\ AdmittedCount <= MAX_WORKERS

\* C6: at any moment at most MAX_WORKERS tasks are inside process_task, also
\* when active_workers miscounts them.
C6_RunningBounded == Cardinality(RunningTasks) <= MAX_WORKERS

\* C6 witness: every pool thread is busy, a further admitted task waits for a
\* thread, and active_workers is below the cap although the pool is full.
C6_Witness ==
    /\ Cardinality(RunningTasks) = MAX_WORKERS
    /\ work_queue # <<>>
    /\ active_workers < MAX_WORKERS

\* C7: every read-modify-write of active_workers is made holding worker_lock
\* (by the manager, by the GUI thread, by a worker), so that the value a thread
\* is about to store is the counter's current value plus or minus one.
C7_CounterUpdatesLocked ==
    /\ mpc = "inc" => (worker_lock = "manager" /\ m_tmp = active_workers)
    /\ gpc = "dec_write" => (worker_lock = "gui" /\ g_tmp = active_workers)
    /\ \A t \in Tasks :
         wpc[t] \in {"inc_write", "dec_write"} =>
             (worker_lock = "worker" /\ tmp[t] = active_workers)

\* The row of item t shows, or showed when it was cleared, a terminal Status
\* (clear_completed_tasks deletes only rows whose status is in ClearedStatuses).
TerminalShown(t) ==
    /\ t <= next_item
    /\ t \in DOMAIN task_list => IsTerminal(task_list[t].status)

\* The manager has completed the admission of item t: counter incremented,
\* "Processing..." scheduled, executor.submit called.
Submitted(t) == Admitted(t) /\ m_task # t

\* C8: every admitted task eventually shows a terminal Status.  Finite form:
\* when the application has ended, every admitted task has shown one.
C8_AdmittedEndsTerminal ==
    destroyed => \A t \in Tasks : Submitted(t) => TerminalShown(t)

\* C9: once a terminal Status has been scheduled for a task, no further Status
\* is scheduled for it.
C9_TerminalNotOverwritten == \A t \in Tasks : ~emitted[t].overwritten

\* The pipeline order: Queued, Dispatched, Acquiring, Transforming, terminal.
Rank(s) ==
    CASE s = "Queued"       -> 1
      [] s = "Dispatched"   -> 2
      [] s = "Acquiring"    -> 3
      [] s = "Transforming" -> 4
      [] s = "Completed"    -> 5
      [] s = "Failed"       -> 5

IsPrefix(p, q) == Len(p) <= Len(q) /\ \A i \in 1..Len(p) : p[i] = q[i]

\* C10 as stated: each task's state sequence is a prefix of Queued, Dispatched,
\* Acquiring, Transforming, terminal.
C10_PrefixOfPipeline ==
    \A t \in Tasks : \A i \in 1..Len(hist[t]) : Rank(hist[t][i]) = i

\* C10 as amended: each task's state sequence is a prefix of one of
\* Queued, Dispatched, Acquiring, Transforming, Completed;
\* Queued, Dispatched, Acquiring, Transforming, Failed;
\* Queued, Dispatched, Acquiring, Failed (the download failed: Transforming is
\* skipped).  No state is entered twice and none after a later one.
C10_OrderedPipeline ==
    \A t \in Tasks :
        \/ IsPrefix(hist[t], <<"Queued", "Dispatched", "Acquiring",
                               "Transforming", "Completed">>)
        \/ IsPrefix(hist[t], <<"Queued", "Dispatched", "Acquiring",
                               "Transforming", "Failed">>)
        \/ IsPrefix(hist[t], <<"Queued", "Dispatched", "Acquiring", "Failed">>)

\* C10 witness: a task went from Acquiring straight to Failed and its worker
\* has returned.
C10_Witness ==
    \E t \in Tasks :
        /\ hist[t] = <<"Queued", "Dispatched", "Acquiring", "Failed">>
        /\ wpc[t] = "done"

\* C11: tasks are admitted in the order add_task enqueued them (item ids are
\* assigned in enqueue order): whenever a task has been dequeued, every task
\* enqueued before it has already been dequeued and handed to the executor.
C11_AdmittedInFifoOrder ==
    \A a \in Tasks : \A b \in Tasks :
        (a < b /\ Admitted(b)) => Submitted(a)

\* C11 witness: two tasks enqueued one after the other have both been handed
\* to the executor, and a third is still queued behind them.
C11_Witness ==
    /\ Submitted(1)
    /\ Submitted(2)
    /\ task_queue = <<3>>

----------------------------------------------------------------------------
\* Temporary directories and the destination MP3

\* process_task has returned for item t.
Returned(t) == wpc[t] = "done"

\* value was scheduled as a Status of item t.
WasScheduled(t, value) ==
    \E i \in 1..Len(sched[t]) : sched[t][i] = <<"Status", value>>

\* C12: when process_task has returned, by any exit path, neither the temporary
\* download directory nor the temporary thumbnail directory of the task exists,
\* provided no removal call made for the task failed.
C12_TempDirsRemoved ==
    \A t \in Tasks :
        (Returned(t) /\ ~rm_failed[t]) =>
            (~disk[t].dl_dir /\ ~disk[t].thumb_dir)

\* C12 witness: a task whose download succeeded (so that both directories were
\* created) has returned without a failed removal.
C12_Witness ==
    \E t \in Tasks :
        /\ Returned(t)
        /\ ~rm_failed[t]
        /\ temp_dir[t]
        /\ WasScheduled(t, "Error: Embed failed")

\* The download of item t yielded no MP3 file.
NoMp3(t) == WasScheduled(t, "Error: MP3 file not found post-download.")

CropFailed(t) ==
    \/ WasScheduled(t, "Error: Crop failed")
    \/ WasScheduled(t, "Error: Unexpected Worker")

\* C14: if thumbnail processing fails at any step, the destination MP3 is the
\* file download_audio moved there; it is replaced only when crop_thumbnail
\* went through extract, crop and remux, in which case nothing but Completed
\* follows.
C14_FailedCropLeavesMp3 ==
    \A t \in Tasks :
        /\ CropFailed(t) => disk[t].mp3 = "downloaded"
        /\ disk[t].mp3 = "recut" =>
               /\ emitted[t].last = "Completed"
               /\ ~WasScheduled(t, "No thumbnail found")

\* C14 witness: the remux step of a task failed and its worker has returned.
C14_Witness ==
    \E t \in Tasks :
        /\ WasScheduled(t, "Error: Embed File Missing")
        /\ CropFailed(t)
        /\ Returned(t)

\* C15: when the extract step reports no embedded thumbnail, the destination
\* MP3 stays the downloaded file and the last Status scheduled for the task
\* is Completed.
C15_NoThumbnailCompletes ==
    \A t \in Tasks :
        WasScheduled(t, "No thumbnail found") =>
            /\ disk[t].mp3 = "downloaded"
            /\ emitted[t].last = "Completed"

\* C15 witness: a task without thumbnail has returned.
C15_Witness ==
    \E t \in Tasks : WasScheduled(t, "No thumbnail found") /\ Returned(t)

----------------------------------------------------------------------------
\* Shutdown

\* C16: once shutdown has begun the application is not destroyed until every
\* worker has finished its pipeline: when it is destroyed no process_task is
\* under way and no submitted work item is left unrun.
C16_DestroyedAfterWorkers ==
    destroyed =>
        /\ work_queue = <<>>
        /\ \A t \in Tasks : wpc[t] \in {"none", "done"}

\* C16 witness: shutdown has begun while a worker is in the middle of its
\* pipeline; the GUI thread waits and the application is not destroyed.
C16_Witness ==
    /\ gpc = "shutdown_wait"
    /\ ~destroyed
    /\ \E t \in Tasks : wpc[t] = "crop"

\* C17: after shutdown has begun task_manager takes nothing out of the queue
\* and does not increment active_workers.
C17_NoAdmissionAfterShutdown ==
    [][shutdown =>
          /\ task_queue' = task_queue
          /\ ~(mpc = "inc" /\ mpc' = "submit")]_vars

----------------------------------------------------------------------------
\* Status events

\* The <<column, value>> pending in the idle queue for item t, in order.
PendingFor(t) ==
    LET OfItem(e) == e[1] = t
        sel == SelectSeq(gui_events, OfItem)
    IN  [i \in 1..Len(sel) |-> <<sel[i][2], sel[i][3]>>]

\* C19: the events of one task, scheduled by task_manager or by its worker, are
\* applied by update_task_display in the order in which they were scheduled.
C19_AppliedInEmissionOrder ==
    \A t \in Tasks : IsPrefix(applied[t], sched[t])

\* C19 witness: the manager's event and all the events of the worker of a task
\* that went through download and thumbnail processing have been applied.
C19_Witness ==
    \E t \in Tasks :
        /\ Len(applied[t]) >= 5
        /\ applied[t] = sched[t]

\* C20: every scheduled event is applied exactly once: what has been applied
\* followed by what is pending is what was scheduled, and nothing is pending
\* any more when the application ends.
C20_AppliedExactlyOnce ==
    \A t \in Tasks :
        /\ applied[t] \o PendingFor(t) = sched[t]
        /\ destroyed => PendingFor(t) = <<>>

----------------------------------------------------------------------------
\* Ownership

\* The number of places item t is in: waiting in task_queue, in the manager's
\* hand, waiting in the executor's work queue, or given to process_task
\* (running or returned).
Holders(t) ==
    Cardinality({i \in 1..Len(task_queue) : task_queue[i] = t})
    + (IF m_task = t THEN 1 ELSE 0)
    + Cardinality({i \in 1..Len(work_queue) : work_queue[i] = t})
    + (IF wpc[t] # "none" THEN 1 ELSE 0)

\* C21: each submitted task is dequeued at most once and process_task is
\* invoked at most once for it: an item is never in two places at once (still
\* queued while in the manager's hand, submitted twice, or submitted again
\* while or after it runs), and it enters Dispatched at most once.
C21_OwnedByOneWorker ==
    \A t \in Tasks :
        /\ Holders(t) <= 1
        /\ Cardinality({i \in 1..Len(hist[t]) : hist[t][i] = "Dispatched"}) <= 1

\* C21 witness: two workers run two different tasks at the same time while a
\* third task has already been run.
C21_Witness ==
    /\ Cardinality(RunningTasks) = 2
    /\ \E t \in Tasks : wpc[t] = "done"

----------------------------------------------------------------------------
\* Failure handling in process_task

\* The Error statuses download_audio schedules.
DownloadErrorStatuses ==
    {"Error: Download failed", "Error: MP3 file not found post-download."}

\* download_audio failed for item t.
DownloadFailed(t) == \E v \in DownloadErrorStatuses : WasScheduled(t, v)

\* process_task is past download_audio and crop_thumbnail for item t.
InCleanup(t) == wpc[t] \in {"finally", "dec_write", "done"}

\* C22: if download_audio fails, crop_thumbnail is not invoked: the task goes
\* from Acquiring to cleanup with the download's Error status as its last
\* Status, never enters Transforming, has no thumbnail directory and no
\* destination MP3 touched, and Completed is never scheduled for it.
C22_FailedDownloadSkipsCrop ==
    \A t \in Tasks :
        DownloadFailed(t) =>
            /\ InCleanup(t)
            /\ emitted[t].last \in DownloadErrorStatuses
            /\ \A i \in 1..Len(hist[t]) : hist[t][i] # "Transforming"
            /\ ~WasScheduled(t, "Completed")
            /\ disk[t].mp3 = "none"

\* C22 witness: a task whose download raised an exception has returned.
C22_Witness ==
    \E t \in Tasks :
        /\ WasScheduled(t, "Error: Download failed")
        /\ Returned(t)

\* The Error statuses crop_thumbnail schedules when the extract, the crop or
\* the remux step fails.
StepErrorStatuses ==
    {"Error: Extract failed", "Error: Crop failed", "Error: Crop File Missing",
     "Error: Embed failed", "Error: Embed File Missing"}

\* A step of crop_thumbnail failed for item t.
StepFailed(t) == \E v \in StepErrorStatuses : WasScheduled(t, v)

\* C23: once process_task is past crop_thumbnail, a failed extract, crop or
\* remux step means the task's last Status is an Error status; the last Status
\* is Completed only if the download succeeded, no step failed, and
\* crop_thumbnail either skipped for lack of a thumbnail or replaced the MP3.
C23_FinalStatusFollowsCrop ==
    \A t \in Tasks :
        InCleanup(t) =>
            /\ StepFailed(t) => emitted[t].last \in ErrorStatuses
            /\ emitted[t].last = "Completed" =>
                   /\ ~DownloadFailed(t)
                   /\ ~StepFailed(t)
                   /\ \/ WasScheduled(t, "No thumbnail found")
                         /\ disk[t].mp3 = "downloaded"
                      \/ disk[t].mp3 = "recut"

\* C23 witness: the crop step of a task left no file and its worker has
\* returned.
C23_Witness ==
    \E t \in Tasks :
        /\ WasScheduled(t, "Error: Crop File Missing")
        /\ Returned(t)

----------------------------------------------------------------------------
\* The window's buttons

\* The rows whose status is terminal: Completed or any Error status.
TerminalRows ==
    {item \in DOMAIN task_list : IsTerminal(task_list[item].status)}

\* C24: whenever the user can press "Clear Completed", the rows
\* clear_completed_tasks deletes are exactly the rows whose status is terminal
\* (Completed or any Error status): none of them stays, and no row that is
\* Queued or in progress goes.
C24_ClearsEveryTerminalRow ==
    (gpc = "idle" /\ ~shutdown) => ItemsToDelete = TerminalRows

\* The tasks task_manager has taken and whose process_task has not returned.
InFlight == {t \in Tasks : Admitted(t) /\ wpc[t] # "done"}

\* C25: whenever the user can close the window, on_closing asks for
\* confirmation exactly when a worker is still running: it asks while a
\* process_task is in progress, and does not ask when no admitted task is left
\* unfinished (and no update is waiting to be applied).
C25_ConfirmIffWorkerRunning ==
    gpc = "idle" =>
        /\ RunningTasks # {} => AsksToConfirm
        /\ (AsksToConfirm /\ gui_events = <<>>) => InFlight # {}

====
